---- MODULE Spec2Model ----
(***************************************************************************)
(* State-machine model of the two edge functions of the IP scanner:        *)
(*   network-scan  (supabase/functions/network-scan/index.ts, lines 1-243) *)
(*   port-scan     (the second module of the same listing, lines 245-440)  *)
(* A process runs exactly one of the two functions (variable fn).  Every   *)
(* action is one run-to-completion step of the JavaScript event loop: the  *)
(* code between two awaits.  The network and the ping facility are the     *)
(* environment: each connect and each spawn resolves nondeterministically. *)
(* The functions that turn request text into host and port lists are also  *)
(* called on their own, on bounded sets of inputs (ParseSpec).             *)
(* The two pages that invoke the functions (src/pages/Scanner.tsx and      *)
(* PortScanner.tsx) are modelled with their Start and Stop buttons         *)
(* (PageSpec).                                                             *)
(***************************************************************************)
EXTENDS Integers, Sequences, FiniteSets, TLC

\* ------------------------------------------------------------------ bounds
\* What a network-scan process handles over its lifetime: every request it
\* receives counts 1, every host it is to probe counts 2 (a liveness probe is a
\* spawn and up to 14 connects).
MaxHostLoad == 6
\* The same for a port-scan process: a request counts 2 (its body is read and
\* its port set selected), a port to probe counts 1.
MaxPortLoad == 9
\* Iterations of a batch loop whose index does not advance towards the end.
MaxSpin == 1

\* Requests the process receives over its lifetime, numbered in their order of
\* arrival.
NumReqs == 3
Reqs == 1..NumReqs

\* --------------------------------------------------- JavaScript arithmetic
\* The value JavaScript calls NaN (Number("x"), parseInt(""), undefined - 1).
NaN == -2000000000

Pow2(n) == 2 ^ n

Min(a, b) == IF a < b THEN a ELSE b
Max(a, b) == IF a > b THEN a ELSE b

\* Bit k (0..30) of the two's complement int32 x; bit 31 is the sign.
Bit(x, k) == (x \div Pow2(k)) % 2

\* The int32 whose low 31 bits are `low` (0 .. 2^31-1) and whose sign bit is `neg`.
Int32Of(low, neg) == IF neg THEN (low - 1073741824) - 1073741824 ELSE low

RECURSIVE OrLow(_, _, _)
OrLow(a, b, k) ==
    IF k < 0 THEN 0
    ELSE (IF Bit(a, k) = 1 \/ Bit(b, k) = 1 THEN Pow2(k) ELSE 0) + OrLow(a, b, k - 1)

RECURSIVE AndLow(_, _, _)
AndLow(a, b, k) ==
    IF k < 0 THEN 0
    ELSE (IF Bit(a, k) = 1 /\ Bit(b, k) = 1 THEN Pow2(k) ELSE 0) + AndLow(a, b, k - 1)

\* a | b and a & b on int32 operands.
BitOr(a, b) == Int32Of(OrLow(a, b, 30), a < 0 \/ b < 0)
BitAnd(a, b) == Int32Of(AndLow(a, b, 30), a < 0 /\ b < 0)

\* o << s for a small non-negative o and s in {8, 16, 24}: the low 32 bits, signed.
Shl(o, s) ==
    LET keep == (IF o = NaN THEN 0 ELSE o) % Pow2(32 - s)
        half == Pow2(31 - s)
    IN  IF keep >= half THEN (keep - half - half) * Pow2(s) ELSE keep * Pow2(s)

\* (x >>> s) & 255 for an int32 x.
Octet(x, s) == (x \div Pow2(s)) % 256

\* (p0 << 24) | (p1 << 16) | (p2 << 8) | p3  -- lines 123, 143, 144.
IpToNum(parts) ==
    BitOr(BitOr(BitOr(Shl(parts[1], 24), Shl(parts[2], 16)), Shl(parts[3], 8)),
          IF parts[4] = NaN THEN 0 ELSE parts[4])

\* [(n>>>24)&255, (n>>>16)&255, (n>>>8)&255, n&255].join(".")  -- lines 130-135.
NumToIp(n) == <<Octet(n, 24), Octet(n, 16), Octet(n, 8), Octet(n, 0)>>

\* endNum - startNum > 254 on doubles (no wrap-around), without leaving int32.
DiffExceeds254(endNum, startNum) ==
    IF endNum >= 0 /\ startNum < 0 THEN endNum > startNum + 254
    ELSE IF endNum < 0 /\ startNum >= 0 THEN FALSE
    ELSE endNum - startNum > 254

\* Array.prototype.slice(a, b) on an array of length n: the 1-based positions kept.
SliceNorm(n, a) == IF a < 0 THEN Max(n + a, 0) ELSE Min(a, n)
SlicePositions(n, a, b) ==
    LET s == SliceNorm(n, a)
        e == SliceNorm(n, b)
    IN  [j \in 1..(IF e > s THEN e - s ELSE 0) |-> s + j]

\* A piece of request text, by what Number and parseInt make of it: a run of
\* decimal digits ("24"), digits followed by something else ("24abc"), the empty
\* string, or text that does not start with a digit ("abc").
Digits(n) == [kind |-> "digits", n |-> n]
DigitsThenJunk(n) == [kind |-> "digitsThenJunk", n |-> n]
Blank == [kind |-> "blank"]
Junk == [kind |-> "junk"]

\* Number(piece) (lines 122, 140, 141, 345): the empty string is 0, text that is
\* not a number throughout is NaN.
JsNumber(p) ==
    IF p.kind = "digits" THEN p.n ELSE IF p.kind = "blank" THEN 0 ELSE NaN

\* parseInt(piece) (lines 116, 353): the leading digits, NaN when there are none.
JsParseInt(p) ==
    IF p.kind \in {"digits", "digitsThenJunk"} THEN p.n ELSE NaN

\* ------------------------------------------------------------ target specs
\* A request field that is absent (undefined) or the empty string: falsy.
Absent == [form |-> "absent"]

\* Strings are modelled by what split("/"), split("-") and split(".") make of them.
Cidr(base, bits) == [form |-> "cidr", base |-> base, bits |-> bits]
Range(startIp, endIp) == [form |-> "range", startIp |-> startIp, endIp |-> endIp]
Single(ip) == [form |-> "single", ip |-> ip]

\* A target with a "/" before parseInt has read its suffix (line 116).
CidrText(base, suffix) == [form |-> "cidrText", base |-> base, suffix |-> suffix]
TargetOf(text) ==
    IF text.form = "cidrText" THEN Cidr(text.base, JsParseInt(text.suffix)) ELSE text

\* The outcome of a call that may throw.
Ok(v) == [ok |-> TRUE, val |-> v]
Err(msg) == [ok |-> FALSE, msg |-> msg]

\* The CIDR branch with its loop starting at i = 0: the network address is listed.
ParseCidrFromNetwork(t) ==
    IF t.bits = NaN THEN Ok(<<>>)
    ELSE IF t.bits < 24 \/ t.bits > 32
    THEN Err("CIDR range must be between /24 and /32")
    ELSE LET networkAddress == BitAnd(IpToNum(t.base), -Pow2(32 - t.bits))
         IN  Ok([i \in 1..(Pow2(32 - t.bits) - 1) |-> NumToIp(networkAddress + (i - 1))])

\* parseIPRange, CIDR branch (lines 113-136).
ParseCidr(t) ==
    IF t.bits = NaN THEN Ok(<<>>)    \* both comparisons and the loop test are false
    ELSE IF t.bits < 24 \/ t.bits > 32
    THEN Err("CIDR range must be between /24 and /32")
    ELSE LET baseNum == IpToNum(t.base)
             hostBits == 32 - t.bits
             numHosts == Pow2(hostBits)
             networkAddress == BitAnd(baseNum, -Pow2(hostBits))
         IN  Ok([i \in 1..(numHosts - 2) |-> NumToIp(networkAddress + i)])

\* parseIPRange, dash-range branch (lines 137-157).
ParseRange(t) ==
    LET startNum == IpToNum(t.startIp)
        endNum == IpToNum(t.endIp)
    IN  IF DiffExceeds254(endNum, startNum)
        THEN Err("Range too large. Maximum 254 IPs allowed.")
        ELSE IF endNum < startNum THEN Ok(<<>>)
        ELSE Ok([j \in 1..(endNum - startNum + 1) |-> NumToIp(startNum + (j - 1))])

\* parseIPRange (lines 110-164).
parseIPRange(t) ==
    CASE t.form = "cidrText" -> ParseCidr(TargetOf(t))
      [] t.form = "cidr" -> ParseCidr(t)
      [] t.form = "range" -> ParseRange(t)
      [] OTHER -> Ok(<<t.ip>>)

\* ---------------------------------------------------------------- port sets
\* PORT_PRESETS (lines 365-370).
PORT_PRESETS ==
    [common |-> <<21, 22, 23, 25, 53, 80, 110, 143, 443, 445, 993, 995, 3306, 3389, 5432, 8080>>,
     web |-> <<80, 443, 8080, 8443>>,
     database |-> <<1433, 1521, 3306, 5432, 6379, 27017>>,
     all |-> <<20, 21, 22, 23, 25, 53, 80, 110, 143, 443, 445, 993, 995, 1433, 1521,
               3306, 3389, 5432, 5900, 6379, 8080, 8443, 27017>>]

\* PORT_INFO (lines 253-277): port -> service name.
PORT_INFO ==
    {<<20, "FTP Data">>, <<21, "FTP Control">>, <<22, "SSH">>, <<23, "Telnet">>,
     <<25, "SMTP">>, <<53, "DNS">>, <<80, "HTTP">>, <<110, "POP3">>, <<143, "IMAP">>,
     <<443, "HTTPS">>, <<445, "SMB">>, <<993, "IMAPS">>, <<995, "POP3S">>,
     <<1433, "MSSQL">>, <<1521, "Oracle">>, <<3306, "MySQL">>, <<3389, "RDP">>,
     <<5432, "PostgreSQL">>, <<5900, "VNC">>, <<6379, "Redis">>, <<8080, "HTTP Proxy">>,
     <<8443, "HTTPS Alt">>, <<27017, "MongoDB">>}

\* PORT_INFO[port] || undefined.
ServiceOf(port) ==
    IF \E e \in PORT_INFO : e[1] = port
    THEN (CHOOSE e \in PORT_INFO : e[1] = port)[2]
    ELSE "undefined"

InSeq(x, s) == \E j \in 1..Len(s) : s[j] = x

\* A comma-separated token of a custom port spec, as split("-").map(Number) or
\* parseInt see it: a single port [dash |-> FALSE, a |-> parseInt(part)] or a range
\* [dash |-> TRUE, a |-> Number(first piece), b |-> Number(second piece)].
PortTok(p) == [dash |-> FALSE, a |-> p, b |-> p]
RangeTok(a, b) == [dash |-> TRUE, a |-> a, b |-> b]

\* A comma-separated part of a custom port spec as text: without a dash (one
\* piece) or with one (the pieces on either side of it).
Plain(piece) == [dashed |-> FALSE, lo |-> piece, hi |-> piece]
Dashed(lo, hi) == [dashed |-> TRUE, lo |-> lo, hi |-> hi]

\* part.includes("-") ? part.split("-").map(Number) : parseInt(part)
\* (lines 343-345 and 353).
TokenOf(part) ==
    IF part.dashed THEN RangeTok(JsNumber(part.lo), JsNumber(part.hi))
    ELSE PortTok(JsParseInt(part.lo))

\* input.split(",") followed by the above for each part (lines 340-342).
TokensOf(parts) == [j \in 1..Len(parts) |-> TokenOf(parts[j])]

\* The range loop without its !ports.includes(i) test.
PushRangeKeepingDuplicates(ports, start, end) ==
    ports \o [j \in 1..(IF end >= start THEN end - start + 1 ELSE 0) |-> start + j - 1]

\* for (let i = start; i <= end; i++) if (1 <= i <= 65535 && !ports.includes(i)) push
\* (lines 346-350): the values of start..end not yet listed are appended in
\* ascending order; values outside [1,65535] are never pushed.
PushRange(ports, start, end) ==
    LET new == {i \in start..end : i >= 1 /\ i <= 65535 /\ ~InSeq(i, ports)}
    IN  ports \o [j \in 1..Cardinality(new) |->
                    CHOOSE x \in new : Cardinality({y \in new : y < x}) = j - 1]

PushToken(ports, tok) ==
    IF tok.dash
    THEN IF tok.a = NaN \/ tok.b = NaN THEN ports
         ELSE PushRange(ports, Max(tok.a, 1), Min(tok.b, 65535))
    ELSE IF tok.a # NaN /\ tok.a >= 1 /\ tok.a <= 65535 /\ ~InSeq(tok.a, ports)
         THEN Append(ports, tok.a)
         ELSE ports

RECURSIVE PushTokens(_, _, _)
PushTokens(ports, toks, j) ==
    IF j > Len(toks) THEN ports ELSE PushTokens(PushToken(ports, toks[j]), toks, j + 1)

\* parsePortRange (lines 336-362).
parsePortRange(toks) ==
    LET ports == PushTokens(<<>>, toks, 1)
    IN  SubSeq(ports, 1, Min(Len(ports), 100))

\* The preset/ports selection of the port-scan handler (lines 388-399).  preset is
\* a string ("" when absent); ports is a token list (<<>> stands for the absent or
\* empty string, which is falsy).
KnownPreset(preset) == preset \in DOMAIN PORT_PRESETS

\* Names every plain object answers to besides its own keys.
ObjectPrototype == {"constructor", "toString", "valueOf", "hasOwnProperty"}

\* PORT_PRESETS[preset] (line 390): whether it is truthy, and its value: a port
\* list for a key of the table, a function of Object.prototype for an inherited
\* name.
HasProperty(tbl, key) == key \in DOMAIN tbl \/ key \in ObjectPrototype
PresetLookup(tbl, key) == IF key \in DOMAIN tbl THEN tbl[key] ELSE [inherited |-> key]

\* The selection that never looks at the ports field when no preset matches.
PortsToScanIgnoringPorts(tbl, preset, ports) ==
    IF preset # "" /\ HasProperty(tbl, preset) THEN PresetLookup(tbl, preset)
    ELSE tbl.common

PortsToScan(tbl, preset, ports) ==
    IF preset # "" /\ HasProperty(tbl, preset) THEN PresetLookup(tbl, preset)
    ELSE IF ports # <<>> THEN parsePortRange(ports)
    ELSE tbl.common

\* ------------------------------------------------------------------ state
VARIABLES
    fn,         \* the edge function this process serves: "network-scan" or "port-scan"
    usePing,    \* let usePing (line 94): the process-wide ICMP mode flag
    body,       \* per request: the JSON body it carried (kept for reference)
    st,         \* per request: "none" (not received), "running", "responded"
    items,      \* per request: ips (line 186) or portsToScan (line 388)
    batchSize,  \* per request: batchSize (line 173, line 404)
    loopI,      \* per request: the loop index i (line 197, line 407)
    chunk,      \* per request: positions (1-based) of the batch being awaited
    probes,     \* per request: one record per item, the scanHost/checkPort call for it
    results,    \* per request: the results array as the loop accumulates it
    response,   \* per request: the Response returned
    abandoned,  \* connects that lost their race to the timer (see Abandon)
    presets,    \* the module-level object PORT_PRESETS (line 365) as it is now
    call,       \* a call of one of the parsing functions on its own: its arguments
    ret,        \* what that call returned or threw
    page        \* a browser page (Scanner.tsx, PortScanner.tsx) and its scans

vars == <<fn, usePing, body, st, items, batchSize, loopI, chunk, probes, results, response,
          abandoned, presets, call, ret, page>>

\* A numeric request field that is absent.
Undefined == -2000000001

\* batchSize = 15 (line 173) and const batchSize = 5 (line 404).
DefaultBatchSize == 15
PortBatchSize == 5

\* const ports = [80, 443, 22, ...] of tcpCheck (line 58).
TCP_PORTS == <<80, 443, 22, 445, 139, 21, 23, 3389, 8080, 53, 25, 110, 3306, 5432>>

NoRes == [status |-> "none"]
NoResponse == [status |-> 0]
NoBody == [method |-> "none"]
NoCall == [op |-> "none"]
NoRet == [ok |-> FALSE, msg |-> "no call made"]
NoPage == [kind |-> "none"]

\* ScanResult of network-scan (lines 8-13).  method "tcp" with port p > 0 is the
\* string "tcp:p"; rt tells whether responseTime is present.
HostRes(ip, status, method, port, rt) ==
    [ip |-> ip, status |-> status, method |-> method, port |-> port, rt |-> rt]

\* PortResult of port-scan (lines 279-284).
PortRes(port, status, rt) ==
    [port |-> port, status |-> status, service |-> ServiceOf(port), rt |-> rt]

\* A connect that loses its race to the timer stays in flight: Promise.race does
\* not cancel it and nothing keeps a reference to it (lines 62-67, 298-303).  The
\* variable abandoned follows such connects of the process: "none", "pending"
\* (one is in flight), "leaked" (one got established: a connection that no code
\* can close any more).  The program observes none of this.
Abandon(ab) == IF ab = "leaked" THEN "leaked" ELSE "pending"

\* A call that has not been made yet.
\*   ping : "none" | "ok" (spawned) | "unavail" (spawn threw)
\*   tried: the ports tcpCheck has called Deno.connect on, in order
\*   ev   : what settled checkPort's race: "none" | "conn" | "error" | "timeout"
IdleProbe(item) ==
    [item |-> item, pc |-> "idle", ping |-> "none", tried |-> <<>>, ev |-> "none",
     res |-> NoRes]

\* -------------------------------------------------------- network-scan code
\* tcpCheck walking its port list from the wrong end.
TcpNextPortFromEnd(p) ==
    IF Len(p.tried) < Len(TCP_PORTS)
    THEN [p EXCEPT !.pc = "tcpWait",
                   !.tried = Append(@, TCP_PORTS[Len(TCP_PORTS) - Len(@)])]
    ELSE [p EXCEPT !.pc = "done", !.res = HostRes(p.item, "inactive", "tcp", 0, FALSE)]

\* The head of tcpCheck's for loop (lines 60-63, 85-90): connect to the next port
\* and race it against the timer, or return inactive when the list is exhausted.
TcpNextPort(p) ==
    IF Len(p.tried) < Len(TCP_PORTS)
    THEN [p EXCEPT !.pc = "tcpWait", !.tried = Append(@, TCP_PORTS[Len(@) + 1])]
    ELSE [p EXCEPT !.pc = "done", !.res = HostRes(p.item, "inactive", "tcp", 0, FALSE)]

\* tcpCheck up to its first await (lines 56-67).
tcpCheck(p) == TcpNextPort(p)

\* tcpCheck when the race is won by the connection (lines 69-79).
TcpOnConnected(p) ==
    [p EXCEPT !.pc = "done",
              !.res = HostRes(p.item, "active", "tcp", p.tried[Len(p.tried)], TRUE)]

\* tcpCheck when the race rejects, by a connect error or by the timer: the empty
\* catch, then the next port (lines 80-82).
TcpOnRejected(p) == TcpNextPort(p)

\* icmpPing up to its first await (lines 16-29, 48-52): the spawn either throws,
\* which rejects the promise, or the process runs.
icmpPing(p, spawnOk) ==
    IF spawnOk THEN [p EXCEPT !.pc = "pingWait", !.ping = "ok"]
    ELSE [p EXCEPT !.pc = "pingThrown", !.ping = "unavail"]

\* icmpPing reporting a response time whatever the exit status.
IcmpOnExitAlwaysTimed(p, success) ==
    [p EXCEPT !.pc = "done",
              !.res = IF success THEN HostRes(p.item, "active", "icmp", 0, TRUE)
                      ELSE HostRes(p.item, "inactive", "icmp", 0, TRUE)]

\* icmpPing after await process.status (lines 29-47).
IcmpOnExit(p, success) ==
    [p EXCEPT !.pc = "done",
              !.res = IF success THEN HostRes(p.item, "active", "icmp", 0, TRUE)
                      ELSE HostRes(p.item, "inactive", "icmp", 0, FALSE)]

\* scanHost without the test of the flag (line 97).
scanHostIgnoringFlag(ip, flag, spawnOk) == icmpPing(IdleProbe(ip), spawnOk)

\* scanHost up to its first await (lines 96-99, 107).
scanHost(ip, flag, spawnOk) ==
    IF flag THEN icmpPing(IdleProbe(ip), spawnOk) ELSE tcpCheck(IdleProbe(ip))

\* scanHost without its try/catch: the rejection of icmpPing propagates.
ScanHostRethrow(p) == [p EXCEPT !.pc = "raised"]

\* scanHost taking the failed spawn for a verdict on the host.
ScanHostCatchAsVerdict(p) == IcmpOnExit(p, FALSE)

\* scanHost's catch block and what follows it (lines 100-107); the flag is
\* assigned by the action.
ScanHostCatch(p) == tcpCheck(p)

\* A catch block that leaves the flag as it is.
FlagKeptAfterCatch(flag) == flag

\* usePing = false in scanHost's catch block (line 104).
FlagAfterCatch(flag) == FALSE

\* ----------------------------------------------------------- port-scan code
\* checkPort up to its first await (lines 294-303).
checkPort(port) == [IdleProbe(port) EXCEPT !.pc = "portWait"]

\* checkPort without the test of the error message (line 321).
PortStatusNoTimeoutTest(ev) == IF ev = "conn" THEN "open" ELSE "closed"

\* checkPort's classification of the race (lines 305-333): ev is "conn" (the connect
\* resolved first), "error" (the connect rejected first) or "timeout" (the timer's
\* Error("timeout") rejected first).
PortStatus(ev) ==
    CASE ev = "conn" -> "open"
      [] ev = "timeout" -> "filtered"
      [] OTHER -> "closed"

CheckPortSettle(p, ev) ==
    [p EXCEPT !.pc = "done", !.ev = ev,
              !.res = PortRes(p.item, PortStatus(ev), ev = "conn")]

\* ------------------------------------------------------------- Promise.all
Positions(c) == {c[j] : j \in 1..Len(c)}
InFlight(p) == p.pc \in {"pingThrown", "pingWait", "tcpWait", "portWait"}
AnyRejected(ps, c) == \E k \in Positions(c) : ps[k].pc = "raised"
AllFulfilled(ps, c) == \A k \in Positions(c) : ps[k].pc = "done"

\* await Promise.all(batch.map(...)) resumes: fulfilled when every call has
\* returned, rejected as soon as one call has thrown.
BatchSettled(ps, c) == AllFulfilled(ps, c) \/ AnyRejected(ps, c)

\* The batch results pushed in the reverse of their positions.
PushBatchReversed(res, ps, c) == res \o [j \in 1..Len(c) |-> ps[c[Len(c) + 1 - j]].res]

\* results.push(...batchResults): Promise.all yields the values by position.
PushBatch(res, ps, c) == res \o [j \in 1..Len(c) |-> ps[c[j]].res]

\* batch = list.slice(i, i + batchSize) (lines 198, 408), as positions.
BatchSlice(n, i, bs) == SlicePositions(n, i, i + bs)

\* ------------------------------------------------------------ response
\* a - b on numbers that may be NaN.
JsSub(a, b) == IF a = NaN \/ b = NaN THEN NaN ELSE a - b

\* The sort key read one field too early: parseInt(r.ip.split('.')[2], 10).
ThirdOctet(r) == IF Len(r.ip) >= 3 THEN r.ip[3] ELSE NaN

\* parseInt(r.ip.split('.')[3], 10) (lines 226-227) and a.port (line 420).
LastOctet(r) == IF Len(r.ip) >= 4 THEN r.ip[4] ELSE NaN
PortKey(r) == r.port

\* Array.prototype.sort with comparator (a, b) => Key(a) - Key(b): stable; a
\* comparator value that is NaN counts as 0.
ComesAfter(a, b) == LET d == JsSub(a, b) IN d # NaN /\ d > 0

\* The order sort leaves the positions 1..n of keys in (insertion from the left).
RECURSIVE InsertPos(_, _, _)
InsertPos(perm, keys, x) ==
    IF perm = <<>> THEN <<x>>
    ELSE IF ComesAfter(keys[perm[Len(perm)]], keys[x])
         THEN Append(InsertPos(SubSeq(perm, 1, Len(perm) - 1), keys, x), perm[Len(perm)])
         ELSE Append(perm, x)

RECURSIVE SortedPositions(_, _)
SortedPositions(keys, n) ==
    IF n = 0 THEN <<>> ELSE InsertPos(SortedPositions(keys, n - 1), keys, n)

\* s sorted by the keys keys[j] of its elements s[j].
SortByKeys(s, keys) ==
    LET perm == SortedPositions(keys, Len(s))
    IN  [j \in 1..Len(s) |-> s[perm[j]]]

\* results.filter(r => r.status === status).length.
CountStatus(s, status) == Cardinality({j \in 1..Len(s) : s[j].status = status})

\* The success response of network-scan reporting method icmp whatever the flag.
HostResponseMethodIcmp(target, flag, res) ==
    [status |-> 200, success |-> TRUE, target |-> target,
     method |-> "icmp",
     totalHosts |-> Len(res), activeHosts |-> CountStatus(res, "active"),
     results |-> SortByKeys(res, [j \in 1..Len(res) |-> LastOctet(res[j])])]

\* The success response of network-scan counting every result as active.
HostResponseAllActive(target, flag, res) ==
    [status |-> 200, success |-> TRUE, target |-> target,
     method |-> IF flag THEN "icmp" ELSE "tcp",
     totalHosts |-> Len(res), activeHosts |-> Len(res),
     results |-> SortByKeys(res, [j \in 1..Len(res) |-> LastOctet(res[j])])]

\* The success response of network-scan (lines 207-232).
HostResponse(target, flag, res) ==
    [status |-> 200, success |-> TRUE, target |-> target,
     method |-> IF flag THEN "icmp" ELSE "tcp",
     totalHosts |-> Len(res), activeHosts |-> CountStatus(res, "active"),
     results |-> SortByKeys(res, [j \in 1..Len(res) |-> LastOctet(res[j])])]

\* The success response of port-scan with results left in the order of the scan.
PortResponseUnsorted(ip, res) ==
    [status |-> 200, ip |-> ip, ports |-> res,
     openCount |-> CountStatus(res, "open"), closedCount |-> CountStatus(res, "closed")]

\* The success response of port-scan (lines 415-430).
PortResponse(ip, res) ==
    [status |-> 200, ip |-> ip,
     ports |-> SortByKeys(res, [j \in 1..Len(res) |-> PortKey(res[j])]),
     openCount |-> CountStatus(res, "open"), closedCount |-> CountStatus(res, "closed")]

\* The catch blocks without status: 500, which leaves the default status.
ErrorResponseDefaultStatus(msg) == [status |-> 200, error |-> msg]

\* The catch blocks (lines 234-242 and 432-439).
ErrorResponse(msg) == [status |-> 500, error |-> msg]

\* The answer to a CORS preflight (lines 167-169 and 374-376).
PreflightResponse == [status |-> 200, preflight |-> TRUE]

\* ------------------------------------------------------------ request bodies
\* target || ipRange || singleIp (line 175).
ScanTarget(b) ==
    IF b.target # Absent THEN b.target
    ELSE IF b.ipRange # Absent THEN b.ipRange ELSE b.singleIp

\* The host list of a request, or the error thrown on the way to it: the
\* handler's lines 175-192.
HostList(b) ==
    IF ScanTarget(b) = Absent
    THEN Err("Target IP/range is required (target, ipRange, or singleIp)")
    ELSE LET parsed == parseIPRange(ScanTarget(b))
         IN  IF parsed.ok /\ Len(parsed.val) > 254
             THEN Err("Maximum 254 IPs per scan")
             ELSE parsed

HostBody(target, ipRange, singleIp, bs) ==
    [method |-> "POST", target |-> target, ipRange |-> ipRange, singleIp |-> singleIp,
     batchSize |-> bs]

PortBody(ip, preset, ports) ==
    [method |-> "POST", ip |-> ip, preset |-> preset, ports |-> ports]

Options == [method |-> "OPTIONS"]

\* The requests the model sends to network-scan: a preflight; no target; CIDR
\* suffixes outside [24,32]; a range that is too large; a single address with the
\* default batch size; the dash range 192.168.1.255-192.168.2.0, which runs across
\* a /24 boundary, with each batch size of BatchSizes.
BatchSizes == {-1, 0, 1, 2}

HostBodies ==
    {Options, HostBody(Absent, Absent, Absent, Undefined),
     HostBody(Cidr(<<192, 168, 1, 9>>, 23), Absent, Absent, Undefined),
     HostBody(Cidr(<<192, 168, 1, 9>>, 33), Absent, Absent, Undefined),
     HostBody(Absent, Range(<<10, 0, 0, 1>>, <<10, 0, 1, 10>>), Absent, Undefined),
     HostBody(Absent, Absent, Single(<<10, 0, 0, 5>>), Undefined)}
    \cup {HostBody(Absent, Range(<<192, 168, 1, 255>>, <<192, 168, 2, 0>>), Absent, bs) :
            bs \in BatchSizes}

\* The requests the model sends to port-scan: a preflight; no ip; the preset web;
\* the custom specs "443", "80,22,80-82" and "1-7".
TargetIp == Single(<<10, 0, 0, 5>>)
PortBodies ==
    {Options, PortBody(Absent, "web", <<>>), PortBody(TargetIp, "web", <<>>),
     PortBody(TargetIp, "", <<PortTok(443)>>),
     PortBody(TargetIp, "", <<PortTok(80), PortTok(22), RangeTok(80, 82)>>),
     PortBody(TargetIp, "custom", <<RangeTok(1, 7)>>)}

\* The host list (lines 175-192) of every body that is not a preflight, evaluated
\* once.
ExpandedTarget ==
    [b \in {x \in HostBodies : x.method = "POST"} |-> HostList(b)]

\* portsToScan (lines 388-399) as a fresh process selects it, for every body
\* that carries an ip, evaluated once: what the request adds to the load.
ResolvedPorts ==
    [b \in {x \in PortBodies : x.method = "POST"} |->
        IF b.ip = Absent THEN <<>> ELSE PortsToScan(PORT_PRESETS, b.preset, b.ports)]

\* What the requests 1..r have brought so far: q each, and w per item.
RECURSIVE Load(_, _, _, _, _)
Load(sts, its, q, w, r) ==
    IF r = 0 THEN 0
    ELSE (IF sts[r] = "none" THEN 0 ELSE q + w * Len(its[r])) + Load(sts, its, q, w, r - 1)

\* Request r arrives: the ones numbered below it have arrived.
Arrives(r) == st[r] = "none" /\ (IF r = 1 THEN TRUE ELSE st[r - 1] # "none")

\* ----------------------------------------------------------------- actions
\* The network-scan loop head (line 197) and what follows the loop (lines 207-232),
\* entered with index i and accumulated results res.  Every scanHost call of a
\* batch runs to its first await inside batch.map, before anything else happens.
HostLoop(r, b, its, bs, i, res, ps) ==
    IF i < Len(its)
    THEN LET c == BatchSlice(Len(its), i, bs)
         IN  \E spawn \in [Positions(c) -> IF usePing THEN BOOLEAN ELSE {FALSE}] :
               /\ probes' = [probes EXCEPT ![r] =
                     [k \in 1..Len(its) |->
                        IF k \in Positions(c) THEN scanHost(its[k], usePing, spawn[k])
                        ELSE ps[k]]]
               /\ chunk' = [chunk EXCEPT ![r] = c]
               /\ st' = [st EXCEPT ![r] = "running"]
               /\ loopI' = [loopI EXCEPT ![r] = i]
               /\ results' = [results EXCEPT ![r] = res]
               /\ response' = response
    ELSE /\ probes' = [probes EXCEPT ![r] = ps]
         /\ chunk' = [chunk EXCEPT ![r] = <<>>]
         /\ st' = [st EXCEPT ![r] = "responded"]
         /\ loopI' = [loopI EXCEPT ![r] = i]
         /\ results' = [results EXCEPT ![r] = res]
         /\ response' = [response EXCEPT ![r] = HostResponse(ScanTarget(b), usePing, res)]

\* A request that ends in the handler's catch block, or with a preflight answer.
Respond(r, resp) ==
    /\ st' = [st EXCEPT ![r] = "responded"]
    /\ response' = [response EXCEPT ![r] = resp]
    /\ UNCHANGED <<items, batchSize, loopI, chunk, probes, results>>

\* The network-scan handler from the arrival of a request to its first await on
\* a batch, or to its response (lines 166-205).  The handler first awaits
\* req.json() (line 172); it touches no shared state before that, so the request
\* counts as arriving when its body has been read.
HostScanRequest(r, b) ==
    /\ fn = "network-scan"
    /\ Arrives(r)
    /\ Load(st, items, 1, 2, NumReqs) + 1 +
         (IF b.method = "POST" /\ ExpandedTarget[b].ok THEN 2 * Len(ExpandedTarget[b].val) ELSE 0)
         <= MaxHostLoad
    /\ body' = [body EXCEPT ![r] = b]
    /\ UNCHANGED <<fn, usePing, abandoned, presets, call, ret, page>>
    /\ IF b.method = "OPTIONS" THEN Respond(r, PreflightResponse)
       ELSE LET parsed == ExpandedTarget[b]
                bs == IF b.batchSize = Undefined THEN DefaultBatchSize ELSE b.batchSize
            IN  IF ~parsed.ok THEN Respond(r, ErrorResponse(parsed.msg))
                ELSE /\ items' = [items EXCEPT ![r] = parsed.val]
                     /\ batchSize' = [batchSize EXCEPT ![r] = bs]
                     /\ HostLoop(r, b, parsed.val, bs, 0, <<>>,
                                 [k \in 1..Len(parsed.val) |-> IdleProbe(parsed.val[k])])

\* await Promise.all(...) of network-scan resumes (lines 201-205), the loop index
\* advances and the loop head runs again; a rejection goes to the catch block.
HostBatchDone(r) ==
    /\ fn = "network-scan"
    /\ st[r] = "running"
    /\ BatchSettled(probes[r], chunk[r])
    /\ UNCHANGED <<fn, usePing, abandoned, body, items, batchSize, presets, call, ret, page>>
    /\ IF AnyRejected(probes[r], chunk[r])
       THEN Respond(r, ErrorResponse("probe failed"))
       ELSE /\ loopI[r] + batchSize[r] >= -MaxSpin
            /\ HostLoop(r, body[r], items[r], batchSize[r], loopI[r] + batchSize[r],
                        PushBatch(results[r], probes[r], chunk[r]), probes[r])

SetProbe(r, k, p) ==
    /\ probes' = [probes EXCEPT ![r][k] = p]
    /\ UNCHANGED <<fn, body, st, items, batchSize, loopI, chunk, results, response, presets,
                   call, ret, page>>

SetProbeOnly(r, k, p) == SetProbe(r, k, p) /\ UNCHANGED <<usePing, abandoned>>

\* scanHost resumes in its catch block: the spawn had thrown (lines 100-107).
PingUnavailable(r, k) ==
    /\ probes[r][k].pc = "pingThrown"
    /\ usePing' = FlagAfterCatch(usePing)
    /\ abandoned' = abandoned
    /\ SetProbe(r, k, ScanHostCatch(probes[r][k]))

\* The ping process exits, with or without a reply (lines 29-47).
PingExit(r, k, success) ==
    /\ probes[r][k].pc = "pingWait"
    /\ SetProbeOnly(r, k, IcmpOnExit(probes[r][k], success))

\* tcpCheck: the connection is established before the timer fires.
TcpConnected(r, k) ==
    /\ probes[r][k].pc = "tcpWait"
    /\ SetProbeOnly(r, k, TcpOnConnected(probes[r][k]))

\* tcpCheck: the connect fails before the timer fires.
TcpConnectFailed(r, k) ==
    /\ probes[r][k].pc = "tcpWait"
    /\ SetProbeOnly(r, k, TcpOnRejected(probes[r][k]))

\* tcpCheck: the timer fires before the connect resolves.
TcpTimeout(r, k) ==
    /\ probes[r][k].pc = "tcpWait"
    /\ usePing' = usePing
    /\ abandoned' = Abandon(abandoned)
    /\ SetProbe(r, k, TcpOnRejected(probes[r][k]))

\* A scan that empties the preset list it was given (portsToScan.splice in place
\* of portsToScan.slice).
PresetsSpliced(tbl, preset) ==
    IF preset \in DOMAIN tbl THEN [tbl EXCEPT ![preset] = <<>>] ELSE tbl

\* PORT_PRESETS after a scan: portsToScan may be the very array of the table
\* (line 391), but the handler only reads it (length, slice: lines 407-408); what
\* it pushes to and sorts in place is its own results array (lines 405, 412, 420).
PresetsAfterScan(tbl, preset) == tbl

\* The port-scan loop head (line 407) and what follows the loop (lines 415-430).
PortLoop(r, b, its, i, res, ps) ==
    IF i < Len(its)
    THEN LET c == BatchSlice(Len(its), i, PortBatchSize)
         IN  /\ probes' = [probes EXCEPT ![r] =
                   [k \in 1..Len(its) |->
                      IF k \in Positions(c) THEN checkPort(its[k]) ELSE ps[k]]]
             /\ chunk' = [chunk EXCEPT ![r] = c]
             /\ st' = [st EXCEPT ![r] = "running"]
             /\ loopI' = [loopI EXCEPT ![r] = i]
             /\ results' = [results EXCEPT ![r] = res]
             /\ response' = response
             /\ presets' = presets
    ELSE /\ probes' = [probes EXCEPT ![r] = ps]
         /\ chunk' = [chunk EXCEPT ![r] = <<>>]
         /\ st' = [st EXCEPT ![r] = "responded"]
         /\ loopI' = [loopI EXCEPT ![r] = i]
         /\ results' = [results EXCEPT ![r] = res]
         /\ response' = [response EXCEPT ![r] = PortResponse(b.ip, res)]
         /\ presets' = PresetsAfterScan(presets, b.preset)

\* The port-scan handler from the arrival of a request (its body read, line 379)
\* to its first await on a batch, or to its response (lines 372-413).
PortScanRequest(r, b) ==
    /\ fn = "port-scan"
    /\ Arrives(r)
    /\ Load(st, items, 2, 1, NumReqs) + 2 +
         (IF b.method = "POST" THEN Len(ResolvedPorts[b]) ELSE 0)
         <= MaxPortLoad
    /\ body' = [body EXCEPT ![r] = b]
    /\ UNCHANGED <<fn, usePing, abandoned, call, ret, page>>
    /\ IF b.method = "OPTIONS" THEN Respond(r, PreflightResponse) /\ presets' = presets
       ELSE IF b.ip = Absent
       THEN Respond(r, ErrorResponse("IP address is required")) /\ presets' = presets
       ELSE LET its == PortsToScan(presets, b.preset, b.ports)
            IN  /\ items' = [items EXCEPT ![r] = its]
                /\ batchSize' = [batchSize EXCEPT ![r] = PortBatchSize]
                /\ PortLoop(r, b, its, 0, <<>>, [k \in 1..Len(its) |-> IdleProbe(its[k])])

\* await Promise.all(...) of port-scan resumes (lines 409-413).
PortBatchDone(r) ==
    /\ fn = "port-scan"
    /\ st[r] = "running"
    /\ BatchSettled(probes[r], chunk[r])
    /\ UNCHANGED <<fn, usePing, abandoned, body, items, batchSize, call, ret, page>>
    /\ IF AnyRejected(probes[r], chunk[r])
       THEN Respond(r, ErrorResponse("probe failed")) /\ presets' = presets
       ELSE PortLoop(r, body[r], items[r], loopI[r] + PortBatchSize,
                     PushBatch(results[r], probes[r], chunk[r]), probes[r])

\* checkPort: the race settles (lines 298-333).
PortConnected(r, k) ==
    /\ probes[r][k].pc = "portWait"
    /\ SetProbeOnly(r, k, CheckPortSettle(probes[r][k], "conn"))

PortConnectFailed(r, k) ==
    /\ probes[r][k].pc = "portWait"
    /\ SetProbeOnly(r, k, CheckPortSettle(probes[r][k], "error"))

PortTimeout(r, k) ==
    /\ probes[r][k].pc = "portWait"
    /\ usePing' = usePing
    /\ abandoned' = Abandon(abandoned)
    /\ SetProbe(r, k, CheckPortSettle(probes[r][k], "timeout"))

\* The environment completes an abandoned connect: the connection gets
\* established, and nothing closes it ...
AbandonedConnectEstablished ==
    /\ abandoned = "pending"
    /\ abandoned' = "leaked"
    /\ UNCHANGED <<fn, usePing, body, st, items, batchSize, loopI, chunk, probes, results,
                   response, presets, call, ret, page>>

\* ... or it fails.
AbandonedConnectFailed ==
    /\ abandoned = "pending"
    /\ abandoned' = "none"
    /\ UNCHANGED <<fn, usePing, body, st, items, batchSize, loopI, chunk, probes, results,
                   response, presets, call, ret, page>>

\* A process that has received no request yet.
NoRequests ==
    /\ usePing = TRUE
    /\ body = [r \in Reqs |-> NoBody]
    /\ st = [r \in Reqs |-> "none"]
    /\ items = [r \in Reqs |-> <<>>]
    /\ batchSize = [r \in Reqs |-> 0]
    /\ loopI = [r \in Reqs |-> 0]
    /\ chunk = [r \in Reqs |-> <<>>]
    /\ probes = [r \in Reqs |-> <<>>]
    /\ results = [r \in Reqs |-> <<>>]
    /\ response = [r \in Reqs |-> NoResponse]
    /\ abandoned = "none"
    /\ presets = PORT_PRESETS

Init ==
    /\ fn \in {"network-scan", "port-scan"}
    /\ NoRequests
    /\ call = NoCall
    /\ ret = NoRet
    /\ page = NoPage

\* The calls request r has made or will make, by position in its item list.
Calls(r) == 1..Len(probes[r])

Next ==
    \/ \E r \in Reqs, b \in HostBodies : HostScanRequest(r, b)
    \/ \E r \in Reqs : HostBatchDone(r)
    \/ \E r \in Reqs : \E k \in Calls(r) : PingUnavailable(r, k)
    \/ \E r \in Reqs : \E k \in Calls(r), success \in BOOLEAN : PingExit(r, k, success)
    \/ \E r \in Reqs : \E k \in Calls(r) : TcpConnected(r, k)
    \/ \E r \in Reqs : \E k \in Calls(r) : TcpConnectFailed(r, k)
    \/ \E r \in Reqs : \E k \in Calls(r) : TcpTimeout(r, k)
    \/ \E r \in Reqs, b \in PortBodies : PortScanRequest(r, b)
    \/ \E r \in Reqs : PortBatchDone(r)
    \/ \E r \in Reqs : \E k \in Calls(r) : PortConnected(r, k)
    \/ \E r \in Reqs : \E k \in Calls(r) : PortConnectFailed(r, k)
    \/ \E r \in Reqs : \E k \in Calls(r) : PortTimeout(r, k)
    \/ AbandonedConnectEstablished
    \/ AbandonedConnectFailed

Spec == Init /\ [][Next]_vars

\* The code's scheduling: a timer that is armed fires unless its race has been
\* settled (setTimeout, lines 65 and 301); a continuation that is ready runs (the
\* catch of scanHost, the resumption after Promise.all).  Nothing makes a connect
\* resolve or a ping process exit.
MaxCalls == MaxPortLoad - 2

Fairness ==
    /\ \A r \in Reqs : WF_vars(HostBatchDone(r)) /\ WF_vars(PortBatchDone(r))
    /\ \A r \in Reqs : \A k \in 1..MaxCalls :
         /\ WF_vars(k \in Calls(r) /\ PingUnavailable(r, k))
         /\ WF_vars(k \in Calls(r) /\ TcpTimeout(r, k))
         /\ WF_vars(k \in Calls(r) /\ PortTimeout(r, k))

FairSpec == Spec /\ Fairness

\* ------------------------------------------- the parsing functions alone
\* The dotted quad d addresses after ip (d < 512), octet by octet.
QuadPlus(ip, d) ==
    LET v4 == ip[4] + d
        v3 == ip[3] + (v4 \div 256)
        v2 == ip[2] + (v3 \div 256)
        v1 == ip[1] + (v2 \div 256)
    IN  <<v1, v2 % 256, v3 % 256, v4 % 256>>

\* CIDR targets: bases below and above 128.0.0.0, aligned or not, with every
\* suffix from 22 to 34, "24abc", an empty suffix and "abc".
CidrBases ==
    {<<192, 168, 1, 9>>, <<10, 0, 0, 0>>, <<127, 255, 255, 255>>, <<128, 0, 0, 1>>,
     <<255, 255, 255, 255>>, <<0, 0, 0, 0>>, <<200, 1, 2, 77>>}
Suffixes == {Digits(n) : n \in 22..34} \cup {DigitsThenJunk(24), Blank, Junk}
CidrTexts == {CidrText(b, x) : b \in CidrBases, x \in Suffixes}

\* Dash ranges: from each start, the ranges of the spans below that stay within
\* 255.255.255.255; ranges whose ends are far apart; ranges that run backwards;
\* "10.0.0.250-10.0.0.260" and "10.0.0.1-10.0.0.x".
RangeStarts ==
    {<<10, 0, 0, 1>>, <<192, 168, 1, 250>>, <<127, 255, 255, 255>>, <<127, 255, 255, 1>>,
     <<128, 0, 0, 0>>, <<255, 255, 255, 0>>, <<0, 0, 0, 0>>}
RangeSpans == {0, 1, 5, 253, 254, 255, 265}
RangeTexts ==
    {Range(a, QuadPlus(a, d)) : a \in {x \in RangeStarts : x[4] < 2}, d \in RangeSpans}
    \cup {Range(a, QuadPlus(a, d)) : a \in RangeStarts \ {<<255, 255, 255, 0>>},
                                     d \in {0, 1, 5}}
    \cup {Range(<<10, 0, 0, 1>>, <<200, 0, 0, 1>>), Range(<<10, 0, 0, 1>>, <<10, 1, 0, 0>>),
          Range(<<100, 0, 0, 0>>, <<228, 0, 0, 0>>), Range(<<200, 0, 0, 1>>, <<10, 0, 0, 1>>),
          Range(<<10, 0, 0, 9>>, <<10, 0, 0, 1>>), Range(<<130, 0, 0, 9>>, <<130, 0, 0, 1>>),
          Range(<<10, 0, 0, 250>>, <<10, 0, 0, 260>>), Range(<<10, 0, 0, 1>>, <<10, 0, 0, NaN>>)}

\* Targets without "/" or "-": dotted quads, and "hello", "10.0.0", "999.1.1.1",
\* "1.2.3.4.5", "10.0.x.1" as split(".").map(Number) sees them.
SingleTexts ==
    {Single(<<10, 0, 0, 5>>), Single(<<192, 168, 1, 1>>), Single(<<255, 255, 255, 255>>),
     Single(<<NaN>>), Single(<<10, 0, 0>>), Single(<<999, 1, 1, 1>>),
     Single(<<1, 2, 3, 4, 5>>), Single(<<10, 0, NaN, 1>>)}

TargetTexts == CidrTexts \cup RangeTexts \cup SingleTexts

\* Parts of custom port specs, and the specs of one or two parts made of them,
\* with "80,22,80-82".
PortParts ==
    {Plain(Digits(80)), Plain(Digits(22)), Plain(Digits(0)), Plain(Digits(70000)),
     Dashed(Digits(80), Digits(82)), Dashed(Digits(1), Digits(104)),
     Dashed(Digits(65530), Digits(65540)), Dashed(Digits(90), Digits(85)),
     Dashed(Digits(0), Digits(3)), Plain(Junk), Plain(Blank), Plain(DigitsThenJunk(80)),
     Dashed(Digits(80), Blank), Dashed(Blank, Digits(5)), Dashed(Junk, Junk)}
PortSpecs ==
    {<<a>> : a \in PortParts} \cup {<<a, b>> : a \in PortParts, b \in PortParts}
    \cup {<<Plain(Digits(80)), Plain(Digits(22)), Dashed(Digits(80), Digits(82))>>}

\* preset and ports fields of port-scan requests ("" and <<>>: absent).
PresetNames == {"", "web", "common", "database", "all", "custom", "bogus", "constructor"}
PortsFields ==
    {<<>>, <<Plain(Digits(443))>>,
     <<Plain(Digits(80)), Plain(Digits(22)), Dashed(Digits(80), Digits(82))>>, <<Plain(Junk)>>}

ParseCalls ==
    {[op |-> "parseIPRange", arg |-> t] : t \in TargetTexts}
    \cup {[op |-> "HostList", arg |-> HostBody(t, Absent, Absent, Undefined)] :
            t \in RangeTexts \cup SingleTexts \cup {Absent}}
    \cup {[op |-> "parsePortRange", arg |-> x] : x \in PortSpecs}
    \cup {[op |-> "PortsToScan", preset |-> q, ports |-> x] :
            q \in PresetNames, x \in PortsFields}

\* The module a function lives in.
ModuleOf(op) ==
    IF op \in {"parseIPRange", "HostList"} THEN "network-scan" ELSE "port-scan"

ParseInit ==
    /\ call \in ParseCalls
    /\ fn = ModuleOf(call.op)
    /\ NoRequests
    /\ ret = NoRet
    /\ page = NoPage

Returns(v) ==
    /\ ret = NoRet
    /\ ret' = v
    /\ UNCHANGED <<fn, usePing, body, st, items, batchSize, loopI, chunk, probes, results,
                   response, abandoned, presets, call, page>>

CallParseIPRange == call.op = "parseIPRange" /\ Returns(parseIPRange(call.arg))
CallHostList == call.op = "HostList" /\ Returns(HostList(call.arg))
CallParsePortRange ==
    call.op = "parsePortRange" /\ Returns(Ok(parsePortRange(TokensOf(call.arg))))
CallPortsToScan ==
    call.op = "PortsToScan"
    /\ Returns(Ok(PortsToScan(presets, call.preset, TokensOf(call.ports))))

ParseNext ==
    \/ CallParseIPRange
    \/ CallHostList
    \/ CallParsePortRange
    \/ CallPortsToScan

ParseSpec == ParseInit /\ [][ParseNext]_vars

\* ------------------------------------------------------- the browser pages
\* Scans the user starts on a page over its lifetime, numbered as started.
MaxScans == 3
Scans == 1..MaxScans

\* The function a page invokes (Scanner.tsx line 125, PortScanner.tsx line 104).
InvokedBy(kind) == IF kind = "Scanner" THEN "network-scan" ELSE "port-scan"

\* A page as it is mounted (Scanner.tsx lines 54-58, PortScanner.tsx lines 61-63):
\* isScanning and abortRef are the page's own; table is the scan whose results
\* are displayed (0: none); saved is the scan history; scans tells which
\* invocations are awaited.  stopped (the scans during which the user pressed
\* Stop) and shown (the scans whose results were ever displayed) record what has
\* happened; the page does not read them.
NewPage(kind) ==
    [kind |-> kind, isScanning |-> FALSE, abortRef |-> FALSE, table |-> 0, saved |-> <<>>,
     scans |-> [n \in Scans |-> "none"], stopped |-> {}, shown |-> {}]

\* The scans started so far, and the latest of them.
StartedScans(pg) == {n \in Scans : pg.scans[n] # "none"}
LatestScan(pg) == Cardinality(StartedScans(pg))

\* finally { setIsScanning(false) } (Scanner.tsx lines 179-181, PortScanner.tsx
\* lines 139-141).
Finally(pg) == [pg EXCEPT !.isScanning = FALSE]

\* The page is in use; the edge functions are not modelled along with it.
PageStep(pg) ==
    /\ page.kind # "none"
    /\ page' = pg
    /\ UNCHANGED <<fn, usePing, body, st, items, batchSize, loopI, chunk, probes, results,
                   response, abandoned, presets, call, ret>>

\* startScan up to its await, with input that passes validation (Scanner.tsx
\* lines 78-127, PortScanner.tsx lines 75-112).  The Start button is rendered
\* only while isScanning is false (Scanner.tsx line 291, PortScanner.tsx line 274).
StartScan ==
    /\ ~page.isScanning
    /\ LatestScan(page) < MaxScans
    /\ PageStep([page EXCEPT !.isScanning = TRUE, !.table = 0, !.abortRef = FALSE,
                             !.scans[LatestScan(page) + 1] = "awaiting"])

\* stopScan (Scanner.tsx lines 184-191, PortScanner.tsx lines 144-150); the Stop
\* button is rendered only while isScanning is true.  Only Scanner.tsx has the
\* abort flag.
StopScan ==
    /\ page.isScanning
    /\ PageStep([page EXCEPT !.isScanning = FALSE,
                             !.abortRef = IF page.kind = "Scanner" THEN TRUE ELSE @,
                             !.stopped = @ \cup {LatestScan(page)}])

\* The invocation of scan n resolves and startScan runs to its end (Scanner.tsx
\* lines 129-181, PortScanner.tsx lines 114-141): data is displayed, and on the
\* Scanner page saved to the history, unless the abort flag is set or the
\* invocation failed.
InvokeResolves(n, failed) ==
    /\ page.kind # "none"
    /\ page.scans[n] = "awaiting"
    /\ LET done == [page EXCEPT !.scans[n] = "done"]
       IN  IF (page.kind = "Scanner" /\ page.abortRef) \/ failed
           THEN PageStep(Finally(done))
           ELSE PageStep(Finally([done EXCEPT
                    !.table = n, !.shown = @ \cup {n},
                    !.saved = IF page.kind = "Scanner" THEN Append(@, n) ELSE @]))

PageInit ==
    /\ page \in {NewPage("Scanner"), NewPage("PortScanner")}
    /\ fn = InvokedBy(page.kind)
    /\ NoRequests
    /\ call = NoCall
    /\ ret = NoRet

PageNext ==
    \/ StartScan
    \/ StopScan
    \/ \E n \in Scans, failed \in BOOLEAN : InvokeResolves(n, failed)

PageSpec == PageInit /\ [][PageNext]_vars

\* ------------------------------------------------------------------ claims
Running(r) == st[r] = "running"
Succeeded(r) == st[r] = "responded" /\ response[r].status = 200 /\ probes[r] # <<>>
Started(r, k) == k \in Calls(r) /\ probes[r][k].pc # "idle"
Returned(r, k) == k \in Calls(r) /\ probes[r][k].pc = "done"

\* The call for item k of request r is made in this step.
StartsNow(r, k) ==
    /\ probes'[r][k].pc # "idle"
    /\ IF k \in Calls(r) THEN probes[r][k].pc = "idle" ELSE TRUE

\* The call for item k of request r before this step (not made yet when the
\* request arrives in this step).
Before(r, k) == IF k \in Calls(r) THEN probes[r][k] ELSE IdleProbe(probes'[r][k].item)

\* C1: the flag usePing only ever goes from true to false, and a scanHost call
\* that starts while the flag is false does not invoke ping: it goes straight to
\* the TCP check, and never invokes ping later.
C1_FlagOnlyFalls ==
    [][/\ usePing' => usePing
       /\ \A r \in Reqs : \A k \in 1..Len(probes'[r]) :
            /\ (~usePing /\ StartsNow(r, k)) =>
                  probes'[r][k].ping = "none" /\ probes'[r][k].pc = "tcpWait"
            /\ (Before(r, k).pc # "idle" /\ Before(r, k).ping = "none") =>
                  probes'[r][k].ping = "none"]_vars

\* The flag has fallen and a call made since then is in its TCP check, no ping
\* invoked for it.
C1_Witness ==
    /\ ~usePing
    /\ \E r \in Reqs : \E k \in Calls(r) :
         probes[r][k].ping = "none" /\ probes[r][k].pc = "tcpWait"

\* C2: every connection established on behalf of checkPort or tcpCheck is closed:
\* in no state have all probes returned while a connection one of them caused to
\* be established is open with no code left to close it.
C2_EveryConnectionClosed ==
    ~(/\ abandoned = "leaked"
      /\ \A r \in Reqs : \A k \in Calls(r) : ~InFlight(probes[r][k]))

\* What item k of a request was probed for, read off a result.
ItemOf(x) == IF fn = "network-scan" THEN x.ip ELSE x.port

\* C3: for a positive batch size the accumulated results (before the response's
\* sort) follow the item list: the j-th result is the value returned by the call
\* made for the j-th item, and a successful request holds one result per item.
C3_InputOrderPreserved ==
    \A r \in Reqs : batchSize[r] > 0 =>
        /\ Len(results[r]) <= Len(items[r])
        /\ \A j \in 1..Len(results[r]) :
             /\ Returned(r, j)
             /\ results[r][j] = probes[r][j].res
             /\ ItemOf(results[r][j]) = items[r][j]
        /\ Succeeded(r) => Len(results[r]) = Len(items[r])

\* A first chunk has been accumulated and, in the second, the call for the later
\* item has returned while the call for the earlier one is still in flight.
C3_Witness ==
    \E r \in Reqs :
        /\ batchSize[r] > 0 /\ Running(r)
        /\ Len(results[r]) > 0 /\ Len(chunk[r]) = 2
        /\ InFlight(probes[r][chunk[r][1]])
        /\ Returned(r, chunk[r][2])

\* C4: chunks are sequential, consecutive slices of size batchSize: while a
\* request runs, the calls in progress are at most batchSize, the chunk awaited is
\* items[i+1 .. i+batchSize] cut at the end of the list, every call before it has
\* returned and no call after it has been made.
C4_ChunksSequential ==
    \A r \in Reqs : Running(r) =>
        /\ Cardinality({k \in Calls(r) : InFlight(probes[r][k])}) <= batchSize[r]
        /\ chunk[r] = [j \in 1..Min(batchSize[r], Len(items[r]) - loopI[r]) |-> loopI[r] + j]
        /\ \A k \in Calls(r) :
             /\ k <= loopI[r] => probes[r][k].pc = "done"
             /\ k > loopI[r] + Len(chunk[r]) => probes[r][k].pc = "idle"

\* C5: every probe is bounded by its own timer: under the code's scheduling each
\* call of checkPort, tcpCheck or icmpPing that has started eventually returns,
\* also when the connect or the ping process never resolves by itself.
C5_EveryProbeReturns ==
    \A r \in Reqs : \A k \in 1..MaxCalls :
        (k \in Calls(r) /\ InFlight(probes[r][k])) ~> Returned(r, k)

Verdicts == {"active", "inactive", "open", "closed", "filtered"}

\* C6: a probe never raises, whatever the connect, the timer or ping do: every
\* call that has returned carries a status, no request that started probing is
\* answered with an error, and a request that is answered has had every item
\* probed, in every batch.
C6_ProbeFailureNeverAborts ==
    \A r \in Reqs :
        /\ \A k \in Calls(r) :
             /\ probes[r][k].pc # "raised"
             /\ probes[r][k].pc = "done" => probes[r][k].res.status \in Verdicts
        /\ (st[r] = "responded" /\ probes[r] # <<>>) =>
             /\ response[r].status = 200
             /\ \A k \in Calls(r) : Returned(r, k)
             /\ Len(results[r]) = Len(items[r])

\* Two batches of one host: ping could not be spawned for the first host and all
\* 14 connects failed; the second host was probed all the same and the request
\* succeeded.
C6_Witness ==
    \E r \in Reqs :
        /\ Succeeded(r) /\ batchSize[r] = 1 /\ Len(items[r]) = 2
        /\ probes[r][1].ping = "unavail"
        /\ probes[r][1].res.status = "inactive"
        /\ Returned(r, 2)

\* C7: a ping that ran and failed is a verdict: inactive, method icmp, no TCP
\* attempt, flag untouched; a ping that could not be invoked is not: the flag
\* becomes false and the result for that host comes from the TCP check.
C7_PingFailuresKeptApart ==
    [][\A r \in Reqs : \A k \in 1..Len(probes'[r]) :
         LET q == probes'[r][k]
             o == Before(r, k)
         IN  /\ q.ping = "ok" =>
                  /\ q.tried = <<>>
                  /\ q.pc = "done" => q.res.method = "icmp"
             /\ (o.pc = "pingWait" /\ q.pc = "done") =>
                  /\ usePing' = usePing
                  /\ q.res.status = "inactive" => q.res = HostRes(q.item, "inactive", "icmp", 0, FALSE)
             /\ (o.pc = "pingThrown" /\ q.pc # "pingThrown") =>
                  ~usePing' /\ q.pc = "tcpWait"
             /\ (q.ping = "unavail" /\ q.pc # "pingThrown") =>
                  /\ ~usePing'
                  /\ Len(q.tried) >= 1
                  /\ q.pc = "done" => q.res.method = "tcp"]_vars

\* Both failures have happened: one host got inactive/icmp from a ping that ran,
\* another got its result from the TCP check after ping could not be spawned.
C7_Witness ==
    /\ \E r \in Reqs : \E k \in Calls(r) :
         /\ probes[r][k].ping = "ok" /\ Returned(r, k)
         /\ probes[r][k].res.status = "inactive"
    /\ \E r \in Reqs : \E k \in Calls(r) :
         /\ probes[r][k].ping = "unavail" /\ Returned(r, k)
         /\ probes[r][k].res.method = "tcp"

\* The port list the TCP liveness check is to walk.
LivenessPorts == <<80, 443, 22, 445, 139, 21, 23, 3389, 8080, 53, 25, 110, 3306, 5432>>

\* C8: tcpCheck tries the ports of LivenessPorts one at a time, in that order: a
\* step starts at most one further attempt, and only from an attempt that failed
\* or timed out; the first connect ends it with active, tcp:<that port>, and no
\* later attempt; inactive with method tcp comes only after all 14 have failed.
C8_PortsTriedInOrder ==
    [][\A r \in Reqs : \A k \in 1..Len(probes'[r]) :
         LET q == probes'[r][k]
             o == Before(r, k)
             n == Len(q.tried)
         IN  /\ q.tried = SubSeq(LivenessPorts, 1, n)
             /\ n <= Len(o.tried) + 1
             /\ (n = Len(o.tried) + 1 /\ n > 1) => o.pc = "tcpWait" /\ q.pc = "tcpWait"
             /\ q.pc = "tcpWait" => n >= 1
             /\ (q.pc = "done" /\ n > 0 /\ q.res.status = "active") =>
                  q.res.method = "tcp" /\ q.res.port = LivenessPorts[n]
             /\ (q.pc = "done" /\ n > 0 /\ q.res.status = "inactive") =>
                  n = 14 /\ q.res.method = "tcp" /\ q.res.port = 0
             /\ o.pc = "done" => q = o]_vars

\* One host was found active at the third port tried, another inactive after all
\* 14 attempts.
C8_Witness ==
    /\ \E r \in Reqs : \E k \in Calls(r) :
         /\ Returned(r, k) /\ probes[r][k].tried = <<80, 443, 22>>
         /\ probes[r][k].res.status = "active" /\ probes[r][k].res.port = 22
    /\ \E r \in Reqs : \E k \in Calls(r) :
         /\ Returned(r, k) /\ Len(probes[r][k].tried) = 14
         /\ probes[r][k].res.status = "inactive"

\* C9: a port probe yields exactly one of open, closed, filtered, by the event
\* that settles its race first: connect resolved gives open with a response time,
\* connect rejected gives closed, timer fired gives filtered, both without one;
\* nothing that happens after the probe has returned changes its result.
C9_StatusByFirstEvent ==
    [][fn = "port-scan" =>
         \A r \in Reqs : \A k \in 1..Len(probes'[r]) :
           LET q == probes'[r][k]
               o == Before(r, k)
           IN  /\ q.pc = "done" =>
                    /\ q.ev \in {"conn", "error", "timeout"}
                    /\ q.ev = "conn" => q.res.status = "open" /\ q.res.rt
                    /\ q.ev = "error" => q.res.status = "closed" /\ ~q.res.rt
                    /\ q.ev = "timeout" => q.res.status = "filtered" /\ ~q.res.rt
                    /\ q.res.port = q.item
               /\ o.pc = "done" => q = o]_vars

\* The three outcomes side by side, and a connect that completed after its probe
\* had returned filtered.
C9_Witness ==
    /\ fn = "port-scan" /\ abandoned = "leaked"
    /\ \E r \in Reqs : \E k1 \in Calls(r), k2 \in Calls(r), k3 \in Calls(r) :
         /\ probes[r][k1].res.status = "open"
         /\ probes[r][k2].res.status = "closed"
         /\ probes[r][k3].res.status = "filtered"

\* end - start of two dotted quads, for addresses less than 2^23 apart.
AddrDiff(e, s) ==
    (((e[1] - s[1]) * 256 + (e[2] - s[2])) * 256 + (e[3] - s[3])) * 256 + (e[4] - s[4])

\* The requests that fail validation: no target, ipRange or singleIp; a CIDR
\* suffix outside [24,32]; a dash range of more than 254 addresses beyond its
\* start; for port-scan, no ip.
Invalid(b) ==
    /\ b.method = "POST"
    /\ IF fn = "port-scan" THEN b.ip = Absent
       ELSE LET t == ScanTarget(b)
            IN  \/ t = Absent
                \/ t.form = "cidr" /\ t.bits # NaN /\ (t.bits < 24 \/ t.bits > 32)
                \/ t.form = "range" /\ AddrDiff(t.endIp, t.startIp) > 254

Called(op) == call.op = op /\ ret # NoRet

ValidQuad(ip) == Len(ip) = 4 /\ \A j \in 1..4 : ip[j] \in 0..255
ValidRange(t) == t.form = "range" /\ ValidQuad(t.startIp) /\ ValidQuad(t.endIp)

\* e - s for two dotted quads read as unsigned 32-bit numbers: exact where the
\* two are less than 769 apart, -1000 or 1000 beyond that.
UnsignedDiff(e, s) ==
    LET h == (e[1] - s[1]) * 65536 + (e[2] - s[2]) * 256 + (e[3] - s[3])
    IN  IF h >= 4 THEN 1000 ELSE IF h <= -4 THEN -1000 ELSE h * 256 + e[4] - s[4]

\* C11: a request whose dash range expands to more than 254 addresses (end - start
\* of 254 or more, the addresses taken as unsigned numbers) is rejected, and a
\* host list that reaches the batch loop has at most 254 entries.
C11_AtMost254Hosts ==
    Called("HostList") =>
        /\ ret.ok => Len(ret.val) <= 254
        /\ LET t == ScanTarget(call.arg)
           IN  (t # Absent /\ ValidRange(t) /\ UnsignedDiff(t.endIp, t.startIp) >= 254)
                   => ~ret.ok

\* A call of parseIPRange on a.b.c.d/bits with valid octets and a suffix that is
\* an integer between 24 and 32.
ValidCidrCall ==
    /\ Called("parseIPRange")
    /\ call.arg.form = "cidrText"
    /\ ValidQuad(call.arg.base)
    /\ call.arg.suffix.kind = "digits"
    /\ call.arg.suffix.n \in 24..32

\* Address j of the network of base with h host bits: the host bits of the last
\* octet cleared, then j added.
CidrHost(base, h, j) == <<base[1], base[2], base[3], base[4] - (base[4] % Pow2(h)) + j>>

\* C12 as stated: for every valid CIDR with bits in 24..32, parseIPRange returns
\* exactly 2^(32-bits)-2 addresses, network+1 .. network+2^(32-bits)-2.
C12_CountAsStated ==
    ValidCidrCall =>
        LET h == 32 - call.arg.suffix.n
        IN  /\ ret.ok
            /\ Len(ret.val) = Pow2(h) - 2
            /\ \A j \in 1..Len(ret.val) : ret.val[j] = CidrHost(call.arg.base, h, j)

\* C12, amended: for every valid CIDR with bits in 24..31 parseIPRange returns
\* exactly the 2^(32-bits)-2 addresses network+1 .. network+2^(32-bits)-2, in
\* ascending order, without the network and the broadcast address (none for /31);
\* for /32 it returns the empty list.
C12_CidrHosts ==
    ValidCidrCall =>
        LET h == 32 - call.arg.suffix.n
        IN  /\ ret.ok
            /\ Len(ret.val) = IF h = 0 THEN 0 ELSE Pow2(h) - 2
            /\ \A j \in 1..Len(ret.val) :
                  /\ ret.val[j] = CidrHost(call.arg.base, h, j)
                  /\ ret.val[j][4] % Pow2(h) \notin {0, Pow2(h) - 1}

\* An unaligned base at or above 128.0.0.0 has been expanded to a list of hosts.
C12_Witness ==
    /\ ValidCidrCall
    /\ call.arg.base[1] >= 128
    /\ call.arg.base[4] % Pow2(32 - call.arg.suffix.n) # 0
    /\ ret.ok /\ Len(ret.val) >= 2

\* C13: for every dash range of valid dotted quads with start <= end as unsigned
\* numbers, parseIPRange returns start .. end inclusive in ascending order when
\* end - start <= 254, and fails with the range-too-large error otherwise.
C13_RangeInclusive ==
    (Called("parseIPRange") /\ ValidRange(call.arg)
        /\ UnsignedDiff(call.arg.endIp, call.arg.startIp) >= 0) =>
        LET d == UnsignedDiff(call.arg.endIp, call.arg.startIp)
        IN  IF d <= 254
            THEN /\ ret.ok
                 /\ Len(ret.val) = d + 1
                 /\ \A j \in 1..Len(ret.val) : ret.val[j] = QuadPlus(call.arg.startIp, j - 1)
            ELSE ret = Err("Range too large. Maximum 254 IPs allowed.")

\* The target is one of the three forms the spec admits: a dotted quad, two
\* dotted quads with a dash between them, a dotted quad with "/" and an integer.
WellFormed(t) ==
    CASE t.form = "single" -> ValidQuad(t.ip)
      [] t.form = "range" -> ValidRange(t)
      [] t.form = "cidrText" -> ValidQuad(t.base) /\ t.suffix.kind = "digits"
      [] OTHER -> FALSE

\* C14: parseIPRange fails for every target that is not of one of the three
\* forms; nothing malformed is passed through or expanded.
C14_MalformedRejected ==
    (Called("parseIPRange") /\ ~WellFormed(call.arg)) => ~ret.ok

\* C15: for a target with "/", parseIPRange returns a host list only when the
\* suffix is an integer in 24..32; for every other suffix it fails with the
\* CIDR-bits error.
C15_SuffixChecked ==
    (Called("parseIPRange") /\ call.arg.form = "cidrText") =>
        IF call.arg.suffix.kind = "digits" /\ call.arg.suffix.n \in 24..32
        THEN ret.ok
        ELSE ret = Err("CIDR range must be between /24 and /32")

\* A custom port spec made of integers and low-high ranges of integers only.
IntegerSpec(parts) ==
    \A j \in 1..Len(parts) : parts[j].lo.kind = "digits" /\ parts[j].hi.kind = "digits"

\* Every part expanded inclusively, in the order of the parts.
RECURSIVE Expansion(_, _)
Expansion(parts, j) ==
    IF j > Len(parts) THEN <<>>
    ELSE [i \in 1..(parts[j].hi.n - parts[j].lo.n + 1) |-> parts[j].lo.n + i - 1]
         \o Expansion(parts, j + 1)

\* The first occurrences of the values of f that lie in 1..65535, in the order of
\* f, and of those the first 100.
FirstSeen(f) ==
    LET kept == {j \in 1..Len(f) : f[j] \in 1..65535 /\ \A k \in 1..(j - 1) : f[k] # f[j]}
    IN  [i \in 1..Min(100, Cardinality(kept)) |->
            f[CHOOSE j \in kept : Cardinality({k \in kept : k < j}) = i - 1]]

ExpectedPorts ==
    [x \in {y \in PortSpecs : IntegerSpec(y)} |-> FirstSeen(Expansion(x, 1))]

\* C16: for a spec of integers and low-high ranges, parsePortRange returns the
\* ranges expanded inclusively in token order, without the values outside
\* 1..65535, each port at its first occurrence only, and of that the first 100:
\* unique integers in 1..65535, at most 100, in first-seen order.
C16_PortListOfSpec ==
    (Called("parsePortRange") /\ IntegerSpec(call.arg)) =>
        /\ ret.val = ExpectedPorts[call.arg]
        /\ Len(ret.val) <= 100
        /\ \A i \in 1..Len(ret.val) :
              /\ ret.val[i] \in 1..65535
              /\ \A k \in 1..(i - 1) : ret.val[k] # ret.val[i]

\* "80,22,80-82" has been parsed to [80,22,81,82].
C16_Witness ==
    /\ Called("parsePortRange")
    /\ call.arg = <<Plain(Digits(80)), Plain(Digits(22)), Dashed(Digits(80), Digits(82))>>
    /\ ret.val = <<80, 22, 81, 82>>

\* C17: a custom spec with a part that is neither an integer nor a range of two
\* integers is refused: parsePortRange, and the port-set selection that calls
\* it, fail instead of returning a port list.
C17_BadTokenRejected ==
    /\ (Called("parsePortRange") /\ ~IntegerSpec(call.arg)) => ~ret.ok
    /\ (Called("PortsToScan") /\ ~KnownPreset(call.preset) /\ call.ports # <<>>
          /\ ~IntegerSpec(call.ports)) => ~ret.ok

\* The selection has yielded the port list l; the function found under an
\* inherited name is no port list.
Selected(l) == call.preset \notin ObjectPrototype /\ ret = Ok(l)

\* C18 as stated: without a known preset the common list is scanned whether or
\* not ports is supplied, except that preset "custom" with ports supplied scans
\* the parsed ports; a known preset scans its list.
C18_SelectionAsStated ==
    Called("PortsToScan") =>
        IF KnownPreset(call.preset) THEN Selected(PORT_PRESETS[call.preset])
        ELSE IF call.preset = "custom"
        THEN call.ports # <<>> => Selected(parsePortRange(TokensOf(call.ports)))
        ELSE Selected(PORT_PRESETS.common)

\* C18, amended: a preset that is a key of the table scans its list, whatever
\* ports holds; a preset name that every object inherits selects the inherited
\* function, not a port list; in every other case (preset absent, "custom", or
\* an unknown name) a supplied ports string is parsed as a custom spec and
\* scanned, and without one the common list is scanned.  Nothing is refused.
C18_PortSetSelection ==
    Called("PortsToScan") =>
        IF KnownPreset(call.preset) THEN Selected(PORT_PRESETS[call.preset])
        ELSE IF call.preset \in ObjectPrototype THEN ret = Ok([inherited |-> call.preset])
        ELSE IF call.ports # <<>> THEN Selected(parsePortRange(TokensOf(call.ports)))
        ELSE Selected(PORT_PRESETS.common)

\* The page's custom scan: no preset, ports "80,22,80-82", and the four ports of
\* the spec selected.
C18_Witness ==
    /\ Called("PortsToScan")
    /\ call.preset = ""
    /\ call.ports = <<Plain(Digits(80)), Plain(Digits(22)), Dashed(Digits(80), Digits(82))>>
    /\ ret = Ok(<<80, 22, 81, 82>>)

\* ------------------------------------------------- claims on the responses
\* Request r has got past validation: its port set or host list is in items[r].
PortsResolved(r) ==
    fn = "port-scan" /\ st[r] # "none" /\ body[r].method = "POST" /\ body[r].ip # Absent
HostsResolved(r) ==
    fn = "network-scan" /\ st[r] # "none" /\ body[r].method = "POST"
        /\ ExpandedTarget[body[r]].ok

Occurrences(s, x) == Cardinality({k \in 1..Len(s) : s[k] = x})

\* C20: the results of a successful network-scan response are a permutation of
\* what the probes of the request returned, and ascend by the last octet of the
\* address from each result to the next.
C20_SortedByLastOctet ==
    \A r \in Reqs : (fn = "network-scan" /\ Succeeded(r)) =>
        LET out == response[r].results
            returned == [k \in 1..Len(probes[r]) |-> probes[r][k].res]
        IN  /\ Len(out) = Len(returned)
            /\ \A j \in 1..Len(out) : Occurrences(out, out[j]) = Occurrences(returned, out[j])
            /\ \A j \in 1..(Len(out) - 1) : out[j].ip[4] <= out[j + 1].ip[4]

\* The range 192.168.1.255-192.168.2.0 has been answered: 192.168.2.0, probed
\* second, is listed first.
C20_Witness ==
    \E r \in Reqs :
        /\ fn = "network-scan" /\ Succeeded(r)
        /\ items[r] = <<(<<192, 168, 1, 255>>), (<<192, 168, 2, 0>>)>>
        /\ response[r].results[1].ip = <<192, 168, 2, 0>>
        /\ response[r].results[2].ip = <<192, 168, 1, 255>>

\* The entries of the list s whose status is status.
WithStatus(s, status) == {j \in 1..Len(s) : s[j].status = status}

\* C21: the ports of a successful port-scan response are one entry per port of
\* the request's port list, strictly ascending by port; openCount and
\* closedCount count the open and the closed entries, and with the filtered
\* entries they add up to the length of the list.
C21_PortsSortedAndCounted ==
    \A r \in Reqs : (fn = "port-scan" /\ Succeeded(r)) =>
        LET out == response[r].ports
        IN  /\ Len(out) = Len(items[r])
            /\ \A k \in 1..Len(items[r]) :
                  Cardinality({j \in 1..Len(out) : out[j].port = items[r][k]}) = 1
            /\ \A j \in 1..(Len(out) - 1) : out[j].port < out[j + 1].port
            /\ response[r].openCount = Cardinality(WithStatus(out, "open"))
            /\ response[r].closedCount = Cardinality(WithStatus(out, "closed"))
            /\ response[r].openCount + response[r].closedCount
                  + Cardinality(WithStatus(out, "filtered")) = Len(out)

\* The custom spec "80,22,80-82" has been scanned and answered: port 22, second
\* in the scan, is listed first, and the answer holds an open, a closed and a
\* filtered port.
C21_Witness ==
    \E r \in Reqs :
        /\ fn = "port-scan" /\ Succeeded(r)
        /\ items[r] = <<80, 22, 81, 82>>
        /\ response[r].ports[1].port = 22
        /\ \A v \in {"open", "closed", "filtered"} : WithStatus(response[r].ports, v) # {}

\* C24: the results of a successful network-scan response hold exactly one
\* entry for each address of the request's expanded host list and none for any
\* other address, whatever other requests run in the process; totalHosts is the
\* number of addresses, activeHosts the number of active entries, and the
\* active and the inactive entries together are totalHosts.
C24_ResultsOfOwnRequest ==
    \A r \in Reqs : (fn = "network-scan" /\ Succeeded(r)) =>
        LET out == response[r].results
            ips == ExpandedTarget[body[r]].val
        IN  /\ Len(out) = Len(ips)
            /\ \A k \in 1..Len(ips) :
                  Cardinality({j \in 1..Len(out) : out[j].ip = ips[k]}) = 1
            /\ \A j \in 1..Len(out) : \E k \in 1..Len(ips) : out[j].ip = ips[k]
            /\ response[r].totalHosts = Len(ips)
            /\ response[r].activeHosts = Cardinality(WithStatus(out, "active"))
            /\ response[r].activeHosts + Cardinality(WithStatus(out, "inactive"))
                  = response[r].totalHosts

\* A request has succeeded with an inactive host while an older request is still
\* running and holds a result of its own.
C24_Witness ==
    \E r1, r2 \in Reqs :
        /\ r1 < r2 /\ fn = "network-scan"
        /\ Running(r1) /\ Len(results[r1]) + Cardinality({k \in Calls(r1) : Returned(r1, k)}) > 0
        /\ Succeeded(r2) /\ response[r2].totalHosts = 1 /\ response[r2].activeHosts = 0

\* Every result the process holds: those returned by the calls, those pushed
\* to a request's results, and those of the responses.
AllResults ==
    UNION {{probes[r][k].res : k \in {j \in Calls(r) : Returned(r, j)}}
             \cup {results[r][j] : j \in 1..Len(results[r])}
             \cup (IF Succeeded(r)
                   THEN LET out == IF fn = "network-scan" THEN response[r].results
                                   ELSE response[r].ports
                        IN  {out[j] : j \in 1..Len(out)}
                   ELSE {}) : r \in Reqs}

\* C25: a result carries responseTime only for a positive verdict: a port result
\* only if its status is open, a host result only if its status is active, by
\* ping or by the TCP check.
C25_TimeOnlyWhenPositive ==
    \A res \in AllResults :
        /\ res.status \in (IF fn = "network-scan" THEN {"active", "inactive"}
                           ELSE {"open", "closed", "filtered"})
        /\ res.rt => res.status = (IF fn = "network-scan" THEN "active" ELSE "open")

\* A response with a host found inactive by ping, without a response time, and
\* a host found active by the TCP check, with one.
C25_Witness ==
    \E r \in Reqs :
        /\ fn = "network-scan" /\ Succeeded(r)
        /\ \E a, b \in 1..Len(response[r].results) :
              LET x == response[r].results[a]
                  y == response[r].results[b]
              IN  /\ x.status = "inactive" /\ x.method = "icmp" /\ ~x.rt
                  /\ y.status = "active" /\ y.method = "tcp" /\ y.port > 0 /\ y.rt

\* No call of request r is in progress: every probe it has started so far has
\* completed.
NoProbeInFlight(r) == \A k \in Calls(r) : ~InFlight(probes[r][k])

\* C26: every network-scan request with a valid target eventually gets its
\* response, whatever integer batchSize its body carries, provided its probes
\* complete: a running request none of whose probes is in progress goes on to
\* its response or to further probes.
C26_EveryRequestAnswered ==
    \A r \in Reqs :
        (fn = "network-scan" /\ Running(r) /\ NoProbeInFlight(r))
            ~> (st[r] = "responded" \/ ~NoProbeInFlight(r))

\* -------------------------------------------- claims on the shared mode flag
\* The scanHost calls made so far whose ping could not be spawned.
PingAttempts == {rk \in Reqs \X (1..MaxHostLoad) :
                   rk[2] \in Calls(rk[1]) /\ probes[rk[1]][rk[2]].ping = "unavail"}

\* A process in which ping could not be invoked so far.
PingNeverInvoked ==
    \A r \in Reqs : \A k \in 1..Len(probes[r]) : probes[r][k].ping # "ok"

\* C23 as stated: in a process where ping can never be invoked, at most one
\* liveness probe attempts to invoke it over the whole process lifetime.
C23_AtMostOneAttempt == PingNeverInvoked => Cardinality(PingAttempts) <= 1

\* C23, amended: in a process where ping can never be invoked, ping is attempted
\* only by scanHost calls that start while the flag is still true (every call of
\* the batches started before the first failure is handled); the first failure
\* handled sets the flag to false, every call whose attempt failed goes on to
\* the TCP check, and every other call goes to the TCP check directly.
C23_AttemptsOnlyWhileFlagTrue ==
    [][(fn = "network-scan" /\ PingNeverInvoked') =>
         /\ \A r \in Reqs : \A k \in 1..Len(probes'[r]) :
               LET p == probes'[r][k]
               IN  /\ (StartsNow(r, k) /\ p.ping = "unavail") => usePing
                   /\ (StartsNow(r, k) /\ ~usePing) => (p.ping = "none" /\ p.pc = "tcpWait")
                   /\ (p.ping = "unavail" /\ p.pc # "pingThrown") =>
                         (~usePing' /\ Len(p.tried) >= 1)
                   /\ (p.ping = "none" /\ p.pc # "idle") => Len(p.tried) >= 1]_vars

\* Ping was unavailable; two calls of two concurrent requests had tried it before
\* the flag fell, and both went on to the TCP check.
C23_Witness ==
    /\ PingNeverInvoked /\ ~usePing
    /\ \E a, b \in PingAttempts : a[1] # b[1]
    /\ \A rk \in PingAttempts : Len(probes[rk[1]][rk[2]].tried) >= 1

\* C27: the method of a network-scan response agrees with its results: when
\* the response is built reporting icmp, every entry of its results has method
\* icmp; when it is built reporting tcp, the flag usePing is false at that
\* moment; whatever other requests do to the flag meanwhile.
C27_MethodAgreesWithResults ==
    [][\A r \in Reqs :
         (fn = "network-scan" /\ ~Succeeded(r) /\ Succeeded(r)') =>
            LET resp == response'[r]
            IN  /\ resp.method \in {"icmp", "tcp"}
                /\ resp.method = "icmp" =>
                      \A j \in 1..Len(resp.results) : resp.results[j].method = "icmp"
                /\ resp.method = "tcp" => (~usePing /\ ~usePing')]_vars

\* A response reports tcp and holds a result obtained by ping: the flag fell
\* while the request was being served.
C27_Witness ==
    \E r \in Reqs :
        /\ fn = "network-scan" /\ Succeeded(r) /\ ~usePing
        /\ response[r].method = "tcp"
        /\ \E j \in 1..Len(response[r].results) : response[r].results[j].method = "icmp"

\* ------------------------------------------------------ claims on the pages
\* C22: on the Scanner page the response of a scan during which the user pressed
\* Stop is never displayed and never saved to the history.
C22_StoppedScanNotShown ==
    page.kind = "Scanner" =>
        \A n \in page.stopped :
            /\ n \notin page.shown
            /\ ~InSeq(n, page.saved)

\* C28: on both pages isScanning follows the current scan: while a scan the user
\* started and has not stopped is awaiting its response, isScanning is true, so
\* that Start is not offered and no second request is issued beside it.
C28_ScanningWhileAwaited ==
    \A n \in Scans :
        (page.kind \in {"Scanner", "PortScanner"}
            /\ page.scans[n] = "awaiting" /\ n \notin page.stopped) =>
                /\ page.isScanning
                /\ \A m \in Scans : (m # n /\ page.scans[m] = "awaiting") => m \in page.stopped
====
